---- MODULE Spec2Model ----
(***************************************************************************)
(* A model of oui-lookup: the MAC address / prefix codec (src/oui.rs), the *)
(* manuf line parser (src/oui.rs), the lookup loop (src/main.rs) and the   *)
(* cache orchestration (src/db.rs).                                        *)
(*                                                                         *)
(* A u64 is modelled as the set of its set bit positions (a subset of      *)
(* 0..63): 48-bit and 64-bit quantities and the shifts on them keep their  *)
(* full width.  A MacAddress is its array of six octets.  A text is a      *)
(* sequence of one-character strings.                                      *)
(***************************************************************************)
EXTENDS Integers, Sequences, FiniteSets, TLC

VARIABLES
    debug_assertions, \* build profile: TRUE when debug_assert! is compiled in
    pc,               \* position of the modelled run
    c_mac,            \* codec: address A given to from_parts
    c_len,            \* codec: prefix length L given to from_parts
    c_query,          \* codec: address X given to matches
    c_prefix,         \* codec: the MacPrefix built by from_parts
    c_result,         \* codec: the result of matches
    text,             \* parser: the text handed to MacPrefix::parse / Oui::from_manuf
    parsed,           \* parser: what the parser returned
    lines,            \* lookup: records parsed from the downloaded text, in file order
    db,               \* lookup: the sorted Vec<Oui>
    mac,              \* lookup: the queried address
    index,            \* lookup: the result of binary_search_by
    args,             \* load: CacheArgs with the resolved cache path
    file,             \* load: what is at the cache path on disk
    remote,           \* load: version of the database the server holds
    cache,            \* load: the Cache value load() holds
    save_cache,       \* load: the save_cache flag of load()
    ret,              \* load: what load() returned
    ops               \* load: the I/O operations performed so far, in order

vars == <<debug_assertions, pc, c_mac, c_len, c_query, c_prefix, c_result,
          text, parsed, lines, db, mac, index,
          args, file, remote, cache, save_cache, ret, ops>>

codecVars == <<c_mac, c_len, c_query, c_prefix, c_result>>
parseVars == <<text, parsed>>
lookupVars == <<lines, db, mac, index>>
loadVars == <<args, file, remote, cache, save_cache, ret, ops>>

None == [tag |-> "None"]
Panic == [tag |-> "Panic"]
Some(v) == [tag |-> "Some", v |-> v]

(***************************************************************************)
(* u64 arithmetic on bit sets                                              *)
(***************************************************************************)
U64Width == 64
MacWidth == 48
LenShift == 56

\* the bits of a u8 value, as positions 0..7
ByteBits(b) == {i \in 0..7 : (b \div (2^i)) % 2 = 1}

\* the u8 value held by bits base..base+7 of a u64
ByteAt(val, base) ==
    LET bit(i) == IF (base + i) \in val THEN 2^i ELSE 0
    IN bit(0) + bit(1) + bit(2) + bit(3) + bit(4) + bit(5) + bit(6) + bit(7)

\* v << n on u64 with the shift amount taken modulo 64 (release arithmetic)
Shl(v, n) == {b + (n % U64Width) : b \in v} \cap (0..(U64Width - 1))

\* v >> n on u64
Shr(v, n) == {b - n : b \in {x \in v : x >= n}}

\* v - 1 on u64, wrapping
SubOne(v) ==
    IF v = {} THEN 0..(U64Width - 1)
    ELSE LET m == CHOOSE x \in v : \A y \in v : x <= y
         IN (v \ {m}) \cup (0..(m - 1))

\* a - b on u8, wrapping
WrappingSubU8(a, b) == (a - b + 256) % 256

(***************************************************************************)
(* MacAddress                                                              *)
(***************************************************************************)
to_u64(m) == UNION {{(40 - 8 * (i - 1)) + b : b \in ByteBits(m[i])} : i \in 1..6}

from_u64(val) == [i \in 1..6 |-> ByteAt(val, 40 - 8 * (i - 1))]

\* derived Ord of MacAddress([u8; 6]): lexicographic on the octets
RECURSIVE CmpFrom(_, _, _)
CmpFrom(a, b, i) ==
    IF i > 6 THEN "Equal"
    ELSE IF a[i] < b[i] THEN "Less"
    ELSE IF a[i] > b[i] THEN "Greater"
    ELSE CmpFrom(a, b, i + 1)

MacAddress_cmp(a, b) == CmpFrom(a, b, 1)

(***************************************************************************)
(* MacPrefix                                                               *)
(***************************************************************************)
\* debug_assert!(prefix_len <= 48) fires only in a debug build
mask_panics(prefix_len) == debug_assertions /\ prefix_len > MacWidth

mask(prefix_len) ==
    Shl(SubOne(Shl({0}, prefix_len)), WrappingSubU8(MacWidth, prefix_len))

from_parts(m, prefix_len) ==
    IF mask_panics(prefix_len) THEN Panic
    ELSE Some(Shl(ByteBits(prefix_len), LenShift)
              \cup (to_u64(m) \cap mask(prefix_len)))

MacPrefix_mac(val) == from_u64(val \cap (0..(MacWidth - 1)))

prefix_len(val) == ByteAt(Shr(val, LenShift), 0)

\* a plausible slip: the stored value is compared without masking it
matches_unmasked(val, m) ==
    IF mask_panics(prefix_len(val)) THEN Panic
    ELSE Some((to_u64(m) \cap mask(prefix_len(val))) = val)

matches(val, m) ==
    IF mask_panics(prefix_len(val)) THEN Panic
    ELSE Some((to_u64(m) \cap mask(prefix_len(val)))
              = (val \cap mask(prefix_len(val))))

MacPrefix_cmp(a, b) == MacAddress_cmp(MacPrefix_mac(a), MacPrefix_mac(b))

(***************************************************************************)
(* Codec run: from_parts(A, L) then matches(X)                             *)
(***************************************************************************)
Mac(a, b, c, d, e, f) == <<a, b, c, d, e, f>>

CodecMacs ==
    { Mac(1, 2, 3, 4, 5, 6), Mac(1, 2, 51, 0, 0, 0), Mac(1, 2, 3, 0, 0, 0),
      Mac(0, 27, 197, 0, 16, 170), Mac(0, 27, 197, 0, 17, 170),
      Mac(0, 27, 197, 0, 32, 187), Mac(0, 27, 197, 0, 16, 0),
      Mac(0, 0, 0, 0, 0, 0), Mac(255, 255, 255, 255, 255, 255),
      Mac(128, 0, 0, 0, 0, 0), Mac(0, 0, 0, 0, 0, 1),
      Mac(127, 255, 255, 255, 255, 255) }

CodecIdle ==
    /\ c_mac = Mac(0, 0, 0, 0, 0, 0)
    /\ c_len = 0
    /\ c_query = Mac(0, 0, 0, 0, 0, 0)
    /\ c_prefix = None
    /\ c_result = None

ParseIdle ==
    /\ text = <<>>
    /\ parsed = None

LookupIdle ==
    /\ lines = <<>>
    /\ db = <<>>
    /\ mac = Mac(0, 0, 0, 0, 0, 0)
    /\ index = None

LoadIdle ==
    /\ args = None
    /\ file = None
    /\ remote = 0
    /\ cache = None
    /\ save_cache = FALSE
    /\ ret = None
    /\ ops = <<>>

InitCodec ==
    /\ debug_assertions \in BOOLEAN
    /\ pc = "codec"
    /\ c_mac \in CodecMacs
    /\ c_len \in 0..MacWidth
    /\ c_query \in CodecMacs
    /\ c_prefix = None
    /\ c_result = None
    /\ ParseIdle
    /\ LookupIdle
    /\ LoadIdle

FromParts ==
    /\ pc = "codec"
    /\ c_prefix' = from_parts(c_mac, c_len)
    /\ pc' = "built"
    /\ UNCHANGED <<debug_assertions, c_mac, c_len, c_query, c_result,
                   parseVars, lookupVars, loadVars>>

Matches ==
    /\ pc = "built"
    /\ c_prefix.tag = "Some"
    /\ c_result' = matches(c_prefix.v, c_query)
    /\ pc' = "matched"
    /\ UNCHANGED <<debug_assertions, c_mac, c_len, c_query, c_prefix,
                   parseVars, lookupVars, loadVars>>

NextCodec == FromParts \/ Matches

SpecCodec == InitCodec /\ [][NextCodec]_vars

\* bit i (1 = most significant) of a 48-bit address, read off its octets
TopBit(m, i) == (m[((i - 1) \div 8) + 1] \div (2^(7 - ((i - 1) % 8)))) % 2

TopBitsEqual(a, x, l) == \A i \in 1..l : TopBit(a, i) = TopBit(x, i)

\* C2: for every L in 0..=48, A and X, from_parts(A, L).matches(X) is true
\* exactly when the top L bits of X equal the top L bits of A; the length byte
\* in bits 63..56 of the packed value has no influence.
C2_MatchesIffTopBits ==
    pc = "matched" =>
        /\ c_prefix.tag = "Some"
        /\ prefix_len(c_prefix.v) = c_len
        /\ c_result = Some(TopBitsEqual(c_mac, c_query, c_len))

\* both outcomes occur for a prefix whose length byte is not zero
C2_Witness ==
    /\ pc = "matched"
    /\ c_len = 36
    /\ c_mac = Mac(0, 27, 197, 0, 16, 0)
    /\ c_query = Mac(0, 27, 197, 0, 17, 170)
    /\ c_result = Some(TRUE)

(***************************************************************************)
(* Text parsing: MacAddress::parse, MacPrefix::parse, Oui::from_manuf      *)
(***************************************************************************)
HexDigits == <<"0", "1", "2", "3", "4", "5", "6", "7", "8", "9",
               "a", "b", "c", "d", "e", "f">>
UpperHexDigits == <<"A", "B", "C", "D", "E", "F">>

\* char::to_digit(radix): the digit's value, or -1 when it is no digit
to_digit(c, radix) ==
    LET v == IF \E i \in 1..16 : HexDigits[i] = c
             THEN (CHOOSE i \in 1..16 : HexDigits[i] = c) - 1
             ELSE IF \E i \in 1..6 : UpperHexDigits[i] = c
             THEN (CHOOSE i \in 1..6 : UpperHexDigits[i] = c) + 9
             ELSE -1
    IN IF v < radix THEN v ELSE -1

is_ascii_hexdigit(c) == to_digit(c, 16) >= 0

is_whitespace(c) == c \in {" ", "\t"}

\* the first of a set of positions (1-based), 0 for None
first_of(hits) ==
    IF hits = {} THEN 0 ELSE CHOOSE i \in hits : \A j \in hits : i <= j

\* str::find / str::split_once with a char
find_char(s, ch) == first_of({i \in 1..Len(s) : s[i] = ch})

\* str::find with |c: char| c.is_whitespace()
find_whitespace(s) == first_of({i \in 1..Len(s) : is_whitespace(s[i])})

\* str::find with |c: char| !c.is_whitespace()
find_non_whitespace(s) == first_of({i \in 1..Len(s) : ~is_whitespace(s[i])})

trim_start(s) ==
    LET i == find_non_whitespace(s)
    IN IF i = 0 THEN <<>> ELSE SubSeq(s, i, Len(s))

RECURSIVE split(_, _)
split(s, sep) ==
    LET i == find_char(s, sep)
    IN IF i = 0 THEN <<s>>
       ELSE <<SubSeq(s, 1, i - 1)>> \o split(SubSeq(s, i + 1, Len(s)), sep)

\* the digit loop of u8::from_str_radix: -1 on an invalid digit or overflow
RECURSIVE accumulate(_, _, _)
accumulate(digits, radix, acc) ==
    IF digits = <<>> THEN acc
    ELSE LET d == to_digit(Head(digits), radix)
         IN IF d < 0 \/ acc * radix + d > 255 THEN -1
            ELSE accumulate(Tail(digits), radix, acc * radix + d)

u8_from_str_radix(s, radix) ==
    IF s = <<>> \/ s = <<"+">> \/ s = <<"-">> THEN None
    ELSE LET digits == IF Head(s) = "+" THEN Tail(s) ELSE s
             v == accumulate(digits, radix, 0)
         IN IF v < 0 THEN None ELSE Some(v)

MacAddress_parse(s) ==
    IF \E i \in 1..Len(s) : ~(is_ascii_hexdigit(s[i]) \/ s[i] = ":") THEN None
    ELSE LET parts == split(s, ":")
         IN IF Len(parts) > 6 THEN None
            ELSE IF \E i \in 1..Len(parts) : u8_from_str_radix(parts[i], 16) = None
            THEN None
            ELSE Some([i \in 1..6 |-> IF i <= Len(parts)
                                      THEN u8_from_str_radix(parts[i], 16).v
                                      ELSE 0])

DefaultPrefixLen == 24

MacPrefix_parse(s) ==
    LET i == find_char(s, "/")
        len == IF i = 0 THEN Some(DefaultPrefixLen)
               ELSE u8_from_str_radix(SubSeq(s, i + 1, Len(s)), 10)
        m == MacAddress_parse(IF i = 0 THEN s ELSE SubSeq(s, 1, i - 1))
    IN IF len = None THEN None
       ELSE IF m = None THEN None
       ELSE from_parts(m.v, len.v)

Oui(p, short, long) == [mac_prefix |-> p, short_name |-> short, long_name |-> long]

from_manuf(line) ==
    LET s0 == trim_start(line)
        i1 == find_whitespace(s0)
        mac_s == SubSeq(s0, 1, i1 - 1)
        s1 == SubSeq(s0, i1, Len(s0))
        p == MacPrefix_parse(mac_s)
        i2 == find_non_whitespace(s1)
        s2 == SubSeq(s1, i2, Len(s1))
        i3 == find_whitespace(s2)
        short == SubSeq(s2, 1, i3 - 1)
        s3 == SubSeq(s2, i3, Len(s2))
        i4 == find_non_whitespace(s3)
        long == SubSeq(s3, i4, Len(s3))
    IN IF s0 # <<>> /\ Head(s0) = "#" THEN None
       ELSE IF i1 = 0 THEN None
       ELSE IF p.tag # "Some" THEN p
       ELSE IF i2 = 0 \/ i3 = 0 \/ i4 = 0 THEN None
       ELSE Some(Oui(p.v, short, long))

(***************************************************************************)
(* Parser run: one text through MacPrefix::parse or Oui::from_manuf        *)
(***************************************************************************)
MaxPrefixText == 5
MaxLine == 5

PrefixAlphabet == {"a", ":", "/", "4", "9"}
LineAlphabet == {" ", "#", "a", "/", "9"}

Texts(alphabet, n) == UNION {[1..k -> alphabet] : k \in 0..n}

\* prefix token, whitespace run, short name, whitespace run, long name
Join(p, w1, short, w2, long) == p \o w1 \o short \o w2 \o long

Blanks == {<<" ">>, <<" ", "\t">>}
Names == {<<"X">>, <<"X", "y">>}
LongNames == {<<"X">>, <<"X", ",", " ", "I">>, <<"X", " ">>}

ManufLines ==
    Texts(LineAlphabet, MaxLine)
    \cup {Join(p, w1, short, w2, long) :
            p \in Texts(PrefixAlphabet, MaxPrefixText - 1), w1 \in Blanks,
            short \in Names, w2 \in {<<" ">>}, long \in LongNames}

InitParse ==
    /\ debug_assertions \in BOOLEAN
    /\ \/ pc = "prefix" /\ text \in Texts(PrefixAlphabet, MaxPrefixText)
       \/ pc = "line" /\ text \in ManufLines
    /\ parsed = None
    /\ CodecIdle
    /\ LookupIdle
    /\ LoadIdle

ParsePrefix ==
    /\ pc = "prefix"
    /\ parsed' = MacPrefix_parse(text)
    /\ pc' = "prefix_done"
    /\ UNCHANGED <<debug_assertions, text, codecVars, lookupVars, loadVars>>

FromManuf ==
    /\ pc = "line"
    /\ parsed' = from_manuf(text)
    /\ pc' = "line_done"
    /\ UNCHANGED <<debug_assertions, text, codecVars, lookupVars, loadVars>>

NextParse == ParsePrefix \/ FromManuf

SpecParse == InitParse /\ [][NextParse]_vars

(***************************************************************************)
(* Reference reading of the prefix and line grammar, for the claims        *)
(***************************************************************************)
DecimalDigits == {"0", "1", "2", "3", "4", "5", "6", "7", "8", "9"}

RECURSIVE DecimalValue(_)
DecimalValue(s) ==
    IF s = <<>> THEN 0
    ELSE 10 * DecimalValue(SubSeq(s, 1, Len(s) - 1)) + to_digit(s[Len(s)], 10)

HasLengthPart(s) == \E i \in 1..Len(s) : s[i] = "/"

LengthPart(s) ==
    LET i == CHOOSE k \in 1..Len(s) : s[k] = "/" /\ \A j \in 1..(k - 1) : s[j] # "/"
    IN SubSeq(s, i + 1, Len(s))

AddressPart(s) ==
    IF HasLengthPart(s)
    THEN SubSeq(s, 1, Len(s) - Len(LengthPart(s)) - 1)
    ELSE s

\* the '/<length>' part is a decimal integer in 0..=48
LengthInRange(s) ==
    /\ LengthPart(s) # <<>>
    /\ \A i \in 1..Len(LengthPart(s)) : LengthPart(s)[i] \in DecimalDigits
    /\ DecimalValue(LengthPart(s)) <= MacWidth

GivenLength(s) ==
    IF HasLengthPart(s) THEN DecimalValue(LengthPart(s)) ELSE DefaultPrefixLen

\* a prefix text as the specification defines it
ValidPrefixText(s) ==
    /\ HasLengthPart(s) => LengthInRange(s)
    /\ MacAddress_parse(AddressPart(s)) # None

\* C3: MacPrefix::parse returns no prefix for every text whose '/<length>'
\* part is not a decimal integer in 0..=48, so no length above 48 reaches the
\* mask arithmetic.
C3_ParseRejectsLengthAbove48 ==
    (pc = "prefix_done" /\ HasLengthPart(text) /\ ~LengthInRange(text))
        => parsed = None

AllWs(s, i, j) == \A k \in i..j : is_whitespace(s[k])
NoWs(s, i, j) == \A k \in i..j : ~is_whitespace(s[k])

\* the line is: blanks, token a..b, blanks, token c..d, blanks, remainder e..
Shape(s, a, b, c, d, e) ==
    /\ AllWs(s, 1, a - 1) /\ NoWs(s, a, b)
    /\ b + 1 < c /\ AllWs(s, b + 1, c - 1) /\ NoWs(s, c, d)
    /\ d + 1 < e /\ AllWs(s, d + 1, e - 1) /\ ~is_whitespace(s[e])

\* the record the line grammar assigns to a line, None when it assigns none
ExpectedRecord(s) ==
    LET n == Len(s)
        ok == \E a \in 1..n : \E b \in a..n : \E c \in (b + 2)..n :
              \E d \in c..n : \E e \in (d + 2)..n :
                 /\ Shape(s, a, b, c, d, e)
                 /\ s[a] # "#"
                 /\ ValidPrefixText(SubSeq(s, a, b))
        pos == CHOOSE q \in (1..n) \X (1..n) \X (1..n) \X (1..n) \X (1..n) :
                 /\ q[1] <= q[2] /\ q[2] < q[3] /\ q[3] <= q[4] /\ q[4] < q[5]
                 /\ Shape(s, q[1], q[2], q[3], q[4], q[5])
    IN IF ~ok THEN None
       ELSE Some([len |-> GivenLength(SubSeq(s, pos[1], pos[2])),
                  addr |-> MacAddress_parse(AddressPart(SubSeq(s, pos[1], pos[2]))).v,
                  short_name |-> SubSeq(s, pos[3], pos[4]),
                  long_name |-> SubSeq(s, pos[5], n)])

\* what from_manuf returned, in the same terms
ReturnedRecord(r) ==
    IF r.tag # "Some" THEN r
    ELSE Some([len |-> prefix_len(r.v.mac_prefix),
               addr |-> MacPrefix_mac(r.v.mac_prefix),
               short_name |-> r.v.short_name,
               long_name |-> r.v.long_name])

MaskedAddr(m, l) == [i \in 1..6 |-> 
    LET keep == IF l >= 8 * i THEN 8 ELSE IF l <= 8 * (i - 1) THEN 0 ELSE l - 8 * (i - 1)
    IN (m[i] \div (2^(8 - keep))) * (2^(8 - keep))]

ExpectedStored(e) ==
    IF e.tag # "Some" THEN e
    ELSE Some([e.v EXCEPT !.addr = MaskedAddr(e.v.addr, e.v.len)])

\* C8: from_manuf yields exactly the record of the line grammar (prefix of the
\* given or default length, second token as short name, whole remainder as
\* long name) for a well-formed line, and no record and never an error for
\* every other line.
C8_FromManufFollowsLineGrammar ==
    pc = "line_done" => ReturnedRecord(parsed) = ExpectedStored(ExpectedRecord(text))

\* the same statement over the lines whose prefix token carries no length
\* above 48
C8_HoldsUpToLength48 ==
    (pc = "line_done"
        /\ \A a \in 1..Len(text) : \A b \in a..Len(text) :
              (AllWs(text, 1, a - 1) /\ NoWs(text, a, b)
                 /\ (b = Len(text) \/ is_whitespace(text[b + 1]))
                 /\ HasLengthPart(SubSeq(text, a, b)))
              => (LengthInRange(SubSeq(text, a, b))
                    \/ u8_from_str_radix(LengthPart(SubSeq(text, a, b)), 10) = None))
        => ReturnedRecord(parsed) = ExpectedStored(ExpectedRecord(text))

(***************************************************************************)
(* Building the database (download_fresh) and looking an address up (run)  *)
(***************************************************************************)
Oui_cmp(a, b) == MacPrefix_cmp(a.mac_prefix, b.mac_prefix)

\* x goes after every element that is not greater than it (stable)
insert(sorted, x) ==
    LET k == Cardinality({i \in 1..Len(sorted) : Oui_cmp(sorted[i], x) # "Greater"})
    IN SubSeq(sorted, 1, k) \o <<x>> \o SubSeq(sorted, k + 1, Len(sorted))

\* Vec::sort: the stable ascending order by Oui::cmp
RECURSIVE sort(_)
sort(v) ==
    IF v = <<>> THEN <<>>
    ELSE insert(sort(SubSeq(v, 1, Len(v) - 1)), v[Len(v)])

\* a slip: the record's base address is compared without the match test
compare_base_only(oui, m) ==
    MacAddress_cmp(MacPrefix_mac(oui.mac_prefix), m)

\* the comparator closure of run()
compare(oui, m) ==
    LET hit == matches(oui.mac_prefix, m)
        prefix_mac == MacPrefix_mac(oui.mac_prefix)
    IN IF hit.tag = "Panic" THEN "Panic"
       ELSE IF hit.v THEN "Equal"
       ELSE IF debug_assertions /\ prefix_mac = m THEN "Panic"
       ELSE MacAddress_cmp(prefix_mac, m)

Ok(i) == [tag |-> "Ok", i |-> i]
Err(i) == [tag |-> "Err", i |-> i]

\* slice::binary_search_by with the closure of run(); indices are 0-based
RECURSIVE search_from(_, _, _, _)
search_from(v, m, base, size) ==
    IF size > 1
    THEN LET half == size \div 2
             mid == base + half
             c == compare(v[mid + 1], m)
         IN IF c = "Panic" THEN Panic
            ELSE search_from(v, m, IF c = "Greater" THEN base ELSE mid, size - half)
    ELSE LET c == compare(v[base + 1], m)
         IN IF c = "Panic" THEN Panic
            ELSE IF c = "Equal" THEN Ok(base)
            ELSE Err(base + (IF c = "Less" THEN 1 ELSE 0))

binary_search_by(v, m) ==
    IF Len(v) = 0 THEN Err(0) ELSE search_from(v, m, 0, Len(v))

MaxRecords == 3

Octet(n) == <<HexDigits[(n \div 16) + 1], HexDigits[(n % 16) + 1]>>

FirstOctets == {0, 64, 128, 192}
LastOctets == {0, 1}
LengthTexts == {<<"0">>, <<"1">>, <<"2">>, <<"4", "8">>}

\* "<first>/<length>\tX X": a line of the manuf text with a truncated address
ShortLine(first, len) ==
    Octet(first) \o <<"/">> \o len \o <<"\t", "X", " ", "X">>

\* "<first>:00:00:00:00:<last>/48  X X": a line with all six octets
FullLine(first, last) ==
    Octet(first) \o <<":", "0", "0", ":", "0", "0", ":", "0", "0", ":", "0", "0", ":">>
    \o Octet(last) \o <<"/", "4", "8", " ", " ", "X", " ", "X">>

\* "00:00:01  X X": a line with the default length of 24
DefaultLengthLine == <<"0", "0", ":", "0", "0", ":", "0", "1", " ", "X", " ", "X">>

DownloadedLines ==
    {ShortLine(f, n) : f \in FirstOctets, n \in LengthTexts}
    \cup {FullLine(0, 1), DefaultLengthLine}

LookupMacs ==
    {Mac(f, 0, 0, 0, 0, l) : f \in FirstOctets, l \in LastOctets}
    \cup {Mac(0, 0, 1, 2, 3, 4)}

InitLookup ==
    /\ debug_assertions \in BOOLEAN
    /\ pc = "parsing"
    /\ lines = <<>>
    /\ db = <<>>
    /\ mac = Mac(0, 0, 0, 0, 0, 0)
    /\ index = None
    /\ CodecIdle
    /\ ParseIdle
    /\ LoadIdle

\* str_data.lines().filter_map(Oui::from_manuf): one more line of the text
ParseLine ==
    /\ pc = "parsing"
    /\ Len(lines) < MaxRecords
    /\ \E l \in DownloadedLines :
          /\ from_manuf(l).tag = "Some"
          /\ lines' = Append(lines, from_manuf(l).v)
    /\ UNCHANGED <<debug_assertions, pc, db, mac, index,
                   codecVars, parseVars, loadVars>>

\* collect, ouis.sort(), and the Vec handed to run()
SortDb ==
    /\ pc = "parsing"
    /\ db' = sort(lines)
    /\ lines' = <<>>
    /\ pc' = "loaded"
    /\ UNCHANGED <<debug_assertions, mac, index, codecVars, parseVars, loadVars>>

\* one iteration of the loop of run() over args.mac
Search ==
    /\ pc = "loaded"
    /\ \E m \in LookupMacs :
          /\ mac' = m
          /\ index' = binary_search_by(db, m)
    /\ pc' = "searched"
    /\ UNCHANGED <<debug_assertions, lines, db, codecVars, parseVars, loadVars>>

NextLookup == ParseLine \/ SortDb \/ Search

SpecLookup == InitLookup /\ [][NextLookup]_vars

Covers(oui, m) ==
    TopBitsEqual(MacPrefix_mac(oui.mac_prefix), m, prefix_len(oui.mac_prefix))

Min(a, b) == IF a <= b THEN a ELSE b

\* two records' covered ranges share an address: one prefix extends the other
Overlap(a, b) ==
    TopBitsEqual(MacPrefix_mac(a.mac_prefix), MacPrefix_mac(b.mac_prefix),
                 Min(prefix_len(a.mac_prefix), prefix_len(b.mac_prefix)))

NonOverlapping(v) ==
    \A i \in 1..Len(v) : \A j \in 1..Len(v) : i # j => ~Overlap(v[i], v[j])

SortedByAddress(v) ==
    \A i \in 1..(Len(v) - 1) :
        MacAddress_cmp(MacPrefix_mac(v[i].mac_prefix),
                       MacPrefix_mac(v[i + 1].mac_prefix)) # "Greater"

\* C1: over a record sequence built by parsing and sorting whose ranges do not
\* overlap (lengths mixed in 0..=48), the search reports a hit exactly when
\* some record covers the query, the reported record covers it, and otherwise
\* it reports a miss.
C1_SearchHitsIffCovered ==
    (pc = "searched" /\ NonOverlapping(db)) =>
        /\ SortedByAddress(db)
        /\ index.tag \in {"Ok", "Err"}
        /\ (index.tag = "Ok") <=> (\E i \in 1..Len(db) : Covers(db[i], mac))
        /\ (index.tag = "Ok") => (index.i < Len(db) /\ Covers(db[index.i + 1], mac))

\* a hit on the last of three records of mixed lengths, whose base address is
\* not the query
C1_Witness ==
    /\ pc = "searched"
    /\ Len(db) = 3
    /\ NonOverlapping(db)
    /\ {prefix_len(db[i].mac_prefix) : i \in 1..3} = {24, 48, 1}
    /\ index = Ok(2)
    /\ MacPrefix_mac(db[3].mac_prefix) # mac

\* C9: the non-overlap of the records' ranges is validated after the build,
\* so no lookup is run against a sequence with overlapping ranges.
C9_NoSearchOverOverlap ==
    pc = "searched" => NonOverlapping(db)

\* the consequence of an unvalidated overlap: a covered address is missed
C9_OverlapNeverMisses ==
    pc = "searched" =>
        ((\E i \in 1..Len(db) : Covers(db[i], mac)) => index.tag = "Ok")

(***************************************************************************)
(* db::load: the cache file, the freshness probe, the download, the save   *)
(***************************************************************************)
NumVersions == 2

\* a Cache value {last_modified, etag, db} built from version v of the feed
Snapshot(v) == [tag |-> "Some", v |-> v]

\* what can be at the cache path
Absent == [kind |-> "absent", snap |-> 0]
Stored(v) == [kind |-> "snapshot", snap |-> v]
Garbage == [kind |-> "garbage", snap |-> 0]
Partial == [kind |-> "partial", snap |-> 0]

Op(name, res) == [op |-> name, res |-> res, snap |-> 0]
OpWith(name, res, v) == [op |-> name, res |-> res, snap |-> v]

\* args.cache_file.as_deref().or_else(|| DEFAULT_CACHE.as_deref())
cache_path(a) == IF a.cache_file THEN TRUE ELSE a.default_cache

\* a slip: --no-cache is not consulted
skip_cache_ignores_flag(a) == ~cache_path(a)

skip_cache(a) == a.no_cache \/ ~cache_path(a)

\* Cache::load: "some" with the decoded snapshot, "none", or "err"
Cache_load(f, io_error) ==
    IF io_error THEN OpWith("read", "err", 0)
    ELSE IF f.kind = "absent" THEN OpWith("read", "none", 0)
    ELSE IF f.kind = "snapshot" THEN OpWith("read", "some", f.snap)
    ELSE OpWith("read", "err", 0)

ProbeOutcomes == {"send_failed", "304", "200", "500"}

\* a slip: every response that is not an error status counts as fresh
up_to_date_accepts_200(outcome) == outcome \in {"304", "200"}

\* Cache::up_to_date
up_to_date(outcome) == outcome # "send_failed" /\ outcome = "304"

DownloadOutcomes ==
    {"ok", "send_failed", "bad_status", "body_failed", "gzip_failed", "not_utf8"}

SaveOutcomes == {"ok", "create_dir_failed", "create_failed",
                 "write_failed_removed", "write_failed_not_removed"}

\* the outcomes the file system can produce for the file found at the path
SavePossible(f, outcome) ==
    /\ outcome = "create_dir_failed" => f.kind = "absent"
    /\ outcome = "write_failed_not_removed" => f.kind # "absent"

\* Cache::save: the file at the path afterwards
Cache_save(f, v, outcome) ==
    IF outcome \in {"create_dir_failed", "create_failed"} THEN f
    ELSE IF outcome = "write_failed_removed" THEN Absent
    ELSE IF outcome = "write_failed_not_removed" THEN Partial
    ELSE Stored(v)

\* a slip: the cache file is read again after a stale probe
after_probe_rereads(fresh) == IF fresh THEN "return" ELSE "cache_load"

\* load(): where it goes after cache.up_to_date()
after_probe(fresh) == IF fresh THEN "return" ELSE "download"

\* a slip: a failed save is propagated with `?`
after_save_propagates(c, outcome) == IF outcome = "ok" THEN None ELSE [tag |-> "Err"]

\* load(): `if let Err(err) = cache.save(..) { warn!(..) }` returns nothing
after_save(c, outcome) == None

InitLoad ==
    /\ debug_assertions \in BOOLEAN
    /\ pc = "load"
    /\ args \in {a \in [no_cache : BOOLEAN, force : BOOLEAN,
                        cache_file : BOOLEAN, default_cache : BOOLEAN] :
                    ~(a.no_cache /\ a.cache_file)}
    /\ file \in IF cache_path(args)
                THEN {Absent, Garbage} \cup {Stored(v) : v \in 1..NumVersions}
                ELSE {Absent}
    /\ remote \in 1..NumVersions
    /\ cache = None
    /\ save_cache = FALSE
    /\ ret = None
    /\ ops = <<>>
    /\ CodecIdle
    /\ ParseIdle
    /\ LookupIdle

\* load(): the flags are examined
Start ==
    /\ pc = "load"
    /\ pc' = IF skip_cache(args) THEN "skip_download"
             ELSE IF args.force THEN "download"
             ELSE "cache_load"
    /\ save_cache' = ~skip_cache(args)
    /\ UNCHANGED <<debug_assertions, args, file, remote, cache, ret, ops,
                   codecVars, parseVars, lookupVars>>

CacheLoad ==
    /\ pc = "cache_load"
    /\ \E io_error \in BOOLEAN :
          LET r == Cache_load(file, io_error)
          IN /\ ops' = Append(ops, r)
             /\ cache' = IF r.res = "some" THEN Snapshot(r.snap) ELSE None
             /\ pc' = IF r.res = "some" THEN "probe" ELSE "download"
    /\ UNCHANGED <<debug_assertions, args, file, remote, save_cache, ret,
                   codecVars, parseVars, lookupVars>>

UpToDate ==
    /\ pc = "probe"
    /\ \E outcome \in ProbeOutcomes :
          /\ ops' = Append(ops, Op("HEAD", outcome))
          /\ save_cache' = ~up_to_date(outcome)
          /\ pc' = after_probe(up_to_date(outcome))
    /\ UNCHANGED <<debug_assertions, args, file, remote, cache, ret,
                   codecVars, parseVars, lookupVars>>

DownloadFresh ==
    /\ pc \in {"skip_download", "download"}
    /\ \E outcome \in DownloadOutcomes :
          /\ ops' = Append(ops, OpWith("GET", outcome,
                                       IF outcome = "ok" THEN remote ELSE 0))
          /\ IF outcome = "ok"
             THEN /\ cache' = Snapshot(remote)
                  /\ ret' = ret
                  /\ pc' = IF pc = "skip_download" THEN "return" ELSE "save"
             ELSE /\ cache' = cache
                  /\ ret' = [tag |-> "Err"]
                  /\ pc' = "done"
    /\ UNCHANGED <<debug_assertions, args, file, remote, save_cache,
                   codecVars, parseVars, lookupVars>>

Save ==
    /\ pc = "save"
    /\ save_cache
    /\ \E outcome \in SaveOutcomes :
          /\ SavePossible(file, outcome)
          /\ ops' = Append(ops, OpWith("write", outcome, cache.v))
          /\ file' = Cache_save(file, cache.v, outcome)
          /\ ret' = after_save(cache, outcome)
          /\ pc' = IF after_save(cache, outcome) = None THEN "return" ELSE "done"
    /\ UNCHANGED <<debug_assertions, args, remote, cache, save_cache,
                   codecVars, parseVars, lookupVars>>

Return ==
    /\ pc = "return"
    /\ ret' = [tag |-> "Ok", v |-> cache.v]
    /\ pc' = "done"
    /\ UNCHANGED <<debug_assertions, args, file, remote, cache, save_cache, ops,
                   codecVars, parseVars, lookupVars>>

NextLoad == Start \/ CacheLoad \/ UpToDate \/ DownloadFresh \/ Save \/ Return

SpecLoad == InitLoad /\ [][NextLoad]_vars

(***************************************************************************)
(* Claims about db::load                                                   *)
(***************************************************************************)
\* skip-cache is in effect: the flag is set, or no path is resolvable
SkipCacheInEffect == args.no_cache \/ ~(args.cache_file \/ args.default_cache)

HasOp(name) == \E i \in 1..Len(ops) : ops[i].op = name

TheOp(name) == ops[CHOOSE i \in 1..Len(ops) : ops[i].op = name]

Downloaded == HasOp("GET") /\ TheOp("GET").res = "ok"

WriteFailedPartway ==
    TheOp("write").res \in {"write_failed_removed", "write_failed_not_removed"}

\* C4: after Cache::save returns, wherever it failed and whatever was at the
\* path before, the file at the path is absent or a complete snapshot; after a
\* write that failed partway no file remains.
C4_SaveLeavesAbsentOrComplete ==
    HasOp("write") =>
        /\ file.kind \in {"absent", "snapshot"}
        /\ WriteFailedPartway => file.kind = "absent"

\* the case of the claim: cache enabled, no force, the cache file decoded,
\* the probe answered
ProbedCache ==
    /\ pc = "done"
    /\ ~SkipCacheInEffect /\ ~args.force
    /\ HasOp("read") /\ TheOp("read").res = "some"
    /\ HasOp("HEAD")

NotModifiedReusesCache ==
    TheOp("HEAD").res = "304" =>
        /\ ret = [tag |-> "Ok", v |-> TheOp("read").snap]
        /\ ~HasOp("GET")
        /\ ~HasOp("write")
        /\ file = Stored(TheOp("read").snap)

\* C5 as stated: on "not modified" the cached snapshot is returned, no GET is
\* issued and the file is not written; on every other probe outcome a full
\* download is performed and, when it succeeds, the cache file holds the new
\* snapshot.
C5_StaleProbeOverwritesFile ==
    ProbedCache =>
        /\ NotModifiedReusesCache
        /\ TheOp("HEAD").res # "304" =>
              /\ HasOp("GET")
              /\ Downloaded => file = Stored(TheOp("GET").snap)

\* C5 amended: ... and, when the download succeeds, a save of the new snapshot
\* is attempted, and the cache file holds the new snapshot when that save
\* succeeds.
C5_StaleProbeAttemptsOverwrite ==
    ProbedCache =>
        /\ NotModifiedReusesCache
        /\ TheOp("HEAD").res # "304" =>
              /\ HasOp("GET")
              /\ Downloaded =>
                    /\ HasOp("write")
                    /\ TheOp("write").snap = TheOp("GET").snap
                    /\ TheOp("write").res = "ok" => file = Stored(TheOp("GET").snap)

\* a probe answered 200 over a cached older version, downloaded and saved
C5_Witness ==
    /\ ProbedCache
    /\ TheOp("HEAD").res = "200"
    /\ Downloaded
    /\ TheOp("read").snap # TheOp("GET").snap
    /\ HasOp("write") /\ TheOp("write").res = "ok"
    /\ file = Stored(remote)

C7_OnlyDownloadFailureIsFatal ==
    pc = "done" =>
        /\ ret.tag \in {"Ok", "Err"}
        /\ ret.tag = "Err" <=> (HasOp("GET") /\ TheOp("GET").res # "ok")
        /\ (HasOp("read") /\ TheOp("read").res = "err") => HasOp("GET")
        /\ (HasOp("write") /\ TheOp("write").res # "ok") =>
              ret = [tag |-> "Ok", v |-> TheOp("GET").snap]

\* an unreadable cache file, a download, a failed save, and a result
C7_Witness ==
    /\ pc = "done"
    /\ HasOp("read") /\ TheOp("read").res = "err"
    /\ HasOp("write") /\ TheOp("write").res = "create_failed"
    /\ ret.tag = "Ok"

InOrder(rank) ==
    \A i \in 1..Len(ops) : \A j \in 1..Len(ops) :
        i < j => rank[ops[i].op] < rank[ops[j].op]

\* C10 as stated: at most one HEAD, one GET, one cache-file read and one
\* cache-file write, in the order HEAD, GET, read, write.
C10_OrderHeadGetReadWrite ==
    InOrder([HEAD |-> 1, GET |-> 2, read |-> 3, write |-> 4])

\* C10 amended: at most one of each, in the order cache-file read, HEAD
\* probe, GET, cache-file write.
C10_OrderReadHeadGetWrite ==
    InOrder([read |-> 1, HEAD |-> 2, GET |-> 3, write |-> 4])

\* all four operations in one run
C10_Witness ==
    /\ pc = "done"
    /\ Len(ops) = 4
    /\ <<ops[1].op, ops[2].op, ops[3].op, ops[4].op>> = <<"read", "HEAD", "GET", "write">>

====
